---- MODULE Spec2Model ----
(***************************************************************************)
(* Model of the semantic image validator, ImageValidator.validate_image    *)
(* (src/validator.py): credential check, model resolution, the generate    *)
(* call with its rate-limit retry loop, and the parsing of the reply into  *)
(* a result record.  The remote endpoint (genai.configure, list_models,    *)
(* generate_content), time.sleep and PIL.Image.open are the environment:   *)
(* their outcomes are chosen nondeterministically and the calls made to    *)
(* them are logged, as a test double would log them.                       *)
(*                                                                         *)
(* Values.  A Python/JSON value is a tagged tuple: <<"null">> (None),      *)
(* <<"bool", b>>, <<"int", n>>, <<"str", t>>, <<"list">>, where a text t   *)
(* is a sequence of pieces (strings); the empty text is <<>>.  Model names *)
(* are spelled one character per piece, because the code searches them for *)
(* substrings; literal messages are single pieces.  A Python dict is a     *)
(* TLA+ record / function from its keys.                                   *)
(***************************************************************************)
EXTENDS Integers, Sequences, FiniteSets, TLC

----------------------------------------------------------------------------
(* Bounds of the model *)

\* longest model listing the endpoint returns
MaxModels == 2
\* number of validate_image calls one behaviour makes
MaxCalls == 2

----------------------------------------------------------------------------
(* Values *)

PyNone == <<"null">>
PyBool(b) == <<"bool", b>>
PyInt(n) == <<"int", n>>
PyStr(t) == <<"str", t>>
Lit(s) == <<"str", <<s>>>>
EmptyStr == <<"str", <<>>>>
JsonList == <<"list">>

IsStr(v) == v[1] = "str"
IsInt(v) == v[1] = "int"

\* the test `v is not None` in place of truthiness
Truthy_IsNotNone(v) == v # PyNone

\* Python truthiness of a value: `not v` is ~Truthy(v)
Truthy(v) ==
    CASE v[1] = "null" -> FALSE
      [] v[1] = "bool" -> v[2]
      [] v[1] = "int" -> v[2] # 0
      [] v[1] = "str" -> v[2] # <<>>
      [] OTHER -> FALSE

\* Python str.__contains__: sub occurs in s as a contiguous run
Contains(sub, s) ==
    \E i \in 0..(Len(s) - Len(sub)) : SubSeq(s, i + 1, i + Len(sub)) = sub

UpperLetters ==
    <<"A", "B", "C", "D", "E", "F", "G", "H", "I", "J", "K", "L", "M",
      "N", "O", "P", "Q", "R", "S", "T", "U", "V", "W", "X", "Y", "Z">>
LowerLetters ==
    <<"a", "b", "c", "d", "e", "f", "g", "h", "i", "j", "k", "l", "m",
      "n", "o", "p", "q", "r", "s", "t", "u", "v", "w", "x", "y", "z">>

LowerChar(c) ==
    IF \E i \in 1..Len(UpperLetters) : UpperLetters[i] = c
    THEN LowerLetters[CHOOSE i \in 1..Len(UpperLetters) : UpperLetters[i] = c]
    ELSE c

\* Python str.lower()
Lower(s) == [i \in 1..Len(s) |-> LowerChar(s[i])]

----------------------------------------------------------------------------
(* Model names *)

Gemini25FlashLite ==
    <<"g","e","m","i","n","i","-","2",".","5","-","f","l","a","s","h","-","l","i","t","e">>
Gemini20Flash ==
    <<"g","e","m","i","n","i","-","2",".","0","-","f","l","a","s","h">>
Gemini15Flash ==
    <<"g","e","m","i","n","i","-","1",".","5","-","f","l","a","s","h">>
GeminiFlashLatest ==
    <<"g","e","m","i","n","i","-","f","l","a","s","h","-","l","a","t","e","s","t">>
Gemini15Pro ==
    <<"g","e","m","i","n","i","-","1",".","5","-","p","r","o">>

preferred_models ==
    <<Gemini25FlashLite, Gemini20Flash, Gemini15Flash, GeminiFlashLatest, Gemini15Pro>>

Flash == <<"f","l","a","s","h">>
Pro == <<"p","r","o">>
ModelsPrefix == <<"m","o","d","e","l","s","/">>

\* the identifier returned when nothing is listed or the listing fails
FallbackModel == Gemini15Flash

\* names the endpoint may list
ListedNames ==
    { ModelsPrefix \o Gemini20Flash,
      Gemini15Flash \o <<"-","8","b">>,
      ModelsPrefix \o Gemini15Pro,
      <<"G","e","m","i","n","i","-","F","l","a","s","h","-","E","x","p">>,
      <<"l","e","a","r","n","l","m","-","f","l","a","s","h">>,
      <<"g","e","m","i","n","i","-","p","r","o","-","v","i","s","i","o","n">>,
      <<"e","m","b","e","d","d","i","n","g","-","0","0","1">> }

GenerationMethods == { {"generateContent"}, {"embedContent"} }

\* one entry of genai.list_models()
ListedModels ==
    { [name |-> n, supported_generation_methods |-> g] :
        n \in ListedNames, g \in GenerationMethods }

\* the listings the endpoint may return
SeqsUpTo(S, n) == UNION { [1..k -> S] : k \in 0..n }
Listings == SeqsUpTo(ListedModels, MaxModels)

----------------------------------------------------------------------------
(* get_working_model *)

\* the list comprehension of line 38
RECURSIVE AvailableModels(_)
AvailableModels(listing) ==
    IF listing = <<>> THEN <<>>
    ELSE LET m == Head(listing)
             rest == AvailableModels(Tail(listing))
         IN IF "generateContent" \in m.supported_generation_methods
            THEN <<m.name>> \o rest
            ELSE rest

\* `for avail in available_models: if <test>: return avail`; <<>> when the
\* loop ends without returning
RECURSIVE FirstContaining(_, _)
FirstContaining(sub, available_models) ==
    IF available_models = <<>> THEN <<>>
    ELSE IF Contains(sub, Head(available_models))
         THEN <<Head(available_models)>>
         ELSE FirstContaining(sub, Tail(available_models))

RECURSIVE FirstLowerContaining(_, _)
FirstLowerContaining(sub, available_models) ==
    IF available_models = <<>> THEN <<>>
    ELSE IF Contains(sub, Lower(Head(available_models)))
         THEN <<Head(available_models)>>
         ELSE FirstLowerContaining(sub, Tail(available_models))

\* the nested loop of lines 41-44
RECURSIVE FirstPreferred(_, _)
FirstPreferred(prefs, available_models) ==
    IF prefs = <<>> THEN <<>>
    ELSE LET hit == FirstContaining(Head(prefs), available_models)
         IN IF hit # <<>> THEN hit
            ELSE FirstPreferred(Tail(prefs), available_models)

\* the loops of lines 41-44 nested the other way round: the first available
\* model that contains any preferred identifier
RECURSIVE FirstWithAnyPreferred(_)
FirstWithAnyPreferred(available_models) ==
    IF available_models = <<>> THEN <<>>
    ELSE IF \E i \in 1..Len(preferred_models) :
                Contains(preferred_models[i], Head(available_models))
         THEN <<Head(available_models)>>
         ELSE FirstWithAnyPreferred(Tail(available_models))

SelectModel_AvailableOuter(available_models) ==
    LET byPref == FirstWithAnyPreferred(available_models)
        byFlash == FirstLowerContaining(Flash, available_models)
        byPro == FirstLowerContaining(Pro, available_models)
    IN IF byPref # <<>> THEN byPref[1]
       ELSE IF byFlash # <<>> THEN byFlash[1]
       ELSE IF byPro # <<>> THEN byPro[1]
       ELSE IF available_models # <<>> THEN available_models[1]
       ELSE FallbackModel

\* lines 41-63, given the list of line 38
SelectModel(available_models) ==
    LET byPref == FirstPreferred(preferred_models, available_models)
        byFlash == FirstLowerContaining(Flash, available_models)
        byPro == FirstLowerContaining(Pro, available_models)
    IN IF byPref # <<>> THEN byPref[1]
       ELSE IF byFlash # <<>> THEN byFlash[1]
       ELSE IF byPro # <<>> THEN byPro[1]
       ELSE IF available_models # <<>> THEN available_models[1]
       ELSE FallbackModel

----------------------------------------------------------------------------
(* Exceptions: a record of the class and of str(e) *)

ResourceExhausted ==
    [type |-> "ResourceExhausted", msg |-> "429 Resource has been exhausted"]
InvalidArgument ==
    [type |-> "InvalidArgument", msg |-> "400 API key not valid"]
InternalServerError ==
    [type |-> "InternalServerError", msg |-> "500 Internal error"]
UnidentifiedImageError ==
    [type |-> "UnidentifiedImageError", msg |-> "cannot identify image file"]
ValueError ==
    [type |-> "ValueError", msg |-> "response.text requires a valid Part"]
JSONDecodeError ==
    [type |-> "JSONDecodeError", msg |-> "Expecting value: line 1 column 1 (char 0)"]
AttributeError ==
    [type |-> "AttributeError", msg |-> "object has no attribute 'get'"]
NoError == [type |-> "none", msg |-> ""]

\* what generate_content may raise besides the rate-limit signal
OtherErrors == {InvalidArgument, InternalServerError}
\* what list_models may raise (their messages name the listing)
ListingErrors ==
    { [type |-> "ResourceExhausted", msg |-> "429 list_models quota exceeded"],
      [type |-> "ServiceUnavailable", msg |-> "503 list_models unavailable"] }

\* `except exceptions.ResourceExhausted` matches e
IsResourceExhausted(e) == e.type = "ResourceExhausted"

----------------------------------------------------------------------------
(* The reply of generate_content *)

\* The text of a reply is a sequence of tokens: the two code fences (three
\* backquotes followed by json, and three backquotes alone), white
\* space, other prose, a complete JSON document (carrying the value
\* json.loads would return for it) or a truncated one.
FenceJson == <<"fence_json">>
Fence == <<"fence">>
Ws == <<"ws">>
Prose == <<"prose">>
Truncated == <<"truncated">>
JsonDoc(v) == <<"json", v>>

Dict(d) == <<"dict", d>>
IsDict(v) == v[1] = "dict"

Absent == <<"absent">>
\* the dict holding the keys that are given a value
MakeDict(valid, reason, suggestion, score) ==
    LET all == [valid |-> valid, reason |-> reason,
                suggestion |-> suggestion, score |-> score]
    IN Dict([k \in {x \in DOMAIN all : all[x] # Absent} |-> all[k]])

KitchenReason == Lit("shows a kitchen interior")
StreetSuggestion ==
    Lit("Please take a photo from the street showing the whole house")

ValidValues == {Absent, PyBool(TRUE), PyBool(FALSE), PyNone, PyInt(1), Lit("true")}
ReasonValues == {Absent, KitchenReason, EmptyStr, PyNone}
SuggestionValues == {Absent, StreetSuggestion}
ScoreValues == {Absent, PyInt(85), PyInt(150)}

JsonObjects ==
    { MakeDict(v, r, s, c) :
        v \in ValidValues, r \in ReasonValues,
        s \in SuggestionValues, c \in ScoreValues }
\* the objects that carry neither suggestion nor score
ShortObjects ==
    { MakeDict(v, r, Absent, Absent) : v \in ValidValues, r \in ReasonValues }
JsonValues == JsonObjects \cup {JsonList, PyNone}

Blocked == [blocked |-> TRUE, text |-> <<>>]
TextReply(t) == [blocked |-> FALSE, text |-> t]

Responses ==
    {Blocked}
    \cup { TextReply(<<JsonDoc(v)>>) : v \in JsonValues }
    \cup { TextReply(<<FenceJson, Ws, JsonDoc(v), Ws, Fence>>) : v \in ShortObjects }
    \cup { TextReply(<<Fence, JsonDoc(MakeDict(PyBool(TRUE), Absent, Absent, PyInt(85))), Fence, Ws>>),
           TextReply(<<Prose, Ws, JsonDoc(MakeDict(PyBool(TRUE), Absent, Absent, PyInt(85)))>>),
           TextReply(<<Truncated>>),
           TextReply(<<>>) }

\* str.replace(tok, "")
Replace(text, tok) == SelectSeq(text, LAMBDA t : t # tok)

\* str.strip()
RECURSIVE LStrip(_)
LStrip(text) ==
    IF text # <<>> /\ Head(text) = Ws THEN LStrip(Tail(text)) ELSE text
RECURSIVE RStrip(_)
RStrip(text) ==
    IF text # <<>> /\ text[Len(text)] = Ws
    THEN RStrip(SubSeq(text, 1, Len(text) - 1))
    ELSE text
Strip(text) == RStrip(LStrip(text))

\* json.loads: the value of the one complete document, or JSONDecodeError
json_loads(text) ==
    IF Len(text) = 1 /\ text[1][1] = "json"
    THEN [raised |-> NoError, value |-> text[1][2]]
    ELSE [raised |-> JSONDecodeError, value |-> PyNone]

\* dict.get(key), which ignores the default
Get_NoDefault(d, key, default) == IF key \in DOMAIN d THEN d[key] ELSE PyNone

\* dict.get(key, default)
Get(d, key, default) == IF key \in DOMAIN d THEN d[key] ELSE default

----------------------------------------------------------------------------
(* The results validate_image returns *)

MissingKeyText == "Google Gemini API Key is missing. Please enter it in the sidebar."
DefaultReason == Lit("Invalid image")
DefaultSuggestion == Lit("Please check the image requirements and try again.")
Unset == <<"unset">>
\* `response = None` of line 106
NoResponse == [blocked |-> FALSE, text |-> <<Unset>>]

\* line 19
MissingKeyResult == [valid |-> FALSE, error |-> Lit(MissingKeyText)]

\* `model_name if 'model_name' in locals() else 'Unknown'`, as a text
ModelOrUnknown(model_name) ==
    IF model_name = Unset THEN <<"Unknown">> ELSE model_name

\* line 126
InvocationFailure(e, model_name) ==
    [valid |-> FALSE,
     error |-> PyStr(<<"AI Validation failed (Model: ">> \o ModelOrUnknown(model_name)
                     \o <<"). Error: ", e.msg>>),
     model_used |-> PyStr(ModelOrUnknown(model_name))]

\* line 156
ParseFailure(e) ==
    [valid |-> FALSE, error |-> PyStr(<<"Validation failed: ", e.msg>>)]

\* the test `if v:` in place of `v is True`
IsTrue_Truthy(v) == Truthy(v)

\* line 137: `v is True`
IsTrue(v) == v = PyBool(TRUE)

\* lines 137-151, for the parsed dict
Verdict(result, model_name) ==
    IF IsTrue(Get(result, "valid", PyNone))
    THEN [valid |-> TRUE,
          message |-> Lit("OK"),
          score |-> Get(result, "score", PyInt(100)),
          model_used |-> PyStr(model_name)]
    ELSE [valid |-> FALSE,
          error |-> Get(result, "reason", DefaultReason),
          suggestion |-> Get(result, "suggestion", DefaultSuggestion),
          score |-> Get(result, "score", PyInt(0)),
          model_used |-> PyStr(model_name)]

\* lines 129-156: what validate_image returns for a reply
ParseResponse(response, model_name) ==
    IF response = NoResponse THEN ParseFailure(AttributeError)
    ELSE IF response.blocked THEN ParseFailure(ValueError)
    ELSE LET text_response == Strip(Replace(Replace(response.text, FenceJson), Fence))
             loaded == json_loads(text_response)
         IN IF loaded.raised # NoError THEN ParseFailure(loaded.raised)
            ELSE IF ~IsDict(loaded.value) THEN ParseFailure(AttributeError)
            ELSE Verdict(loaded.value[2], model_name)

\* lines 129-151 raise for this reply, so that the handler of line 153 runs
ParseRaises(response) ==
    \/ response = NoResponse
    \/ response.blocked
    \/ LET loaded == json_loads(Strip(Replace(Replace(response.text, FenceJson), Fence)))
       IN loaded.raised # NoError \/ ~IsDict(loaded.value)

----------------------------------------------------------------------------
(* State *)

VARIABLES
    pc,                \* where the caller / validate_image stands
    ncalls,            \* validate_image calls made so far
    file_upload,       \* argument: the uploaded file
    yard_type,         \* argument: the claimed yard
    api_key,           \* argument: the credential
    image,             \* local: the decoded image
    available_models,  \* local of get_working_model
    model_name,        \* local: the selected model
    attempt,           \* local: loop index of the retry loop
    retry_delay,       \* local: delay of the next backoff sleep
    response,          \* local: the reply of generate_content
    last_error,        \* local: the last rate-limit error
    exc,               \* the exception being handled at line 125
    result,            \* what validate_image returned
    raised,            \* the exception validate_image let through
    configure_calls,   \* environment: genai.configure calls of this call
    list_calls,        \* environment: outcomes of the list_models calls
    generate_calls,    \* environment: model and outcome of each generate_content call
    sleeps,            \* environment: the delays passed to time.sleep
    file_pos,          \* environment: read position of the upload, "start" or "moved"
    mock,              \* test double: the programmed behaviour of a deterministic endpoint
    prev,              \* test double: what the previous of two identical calls did
    app_pc,            \* app.py: position of the script run
    app_key,           \* app.py line 37: api_key of the sidebar
    app_imgs,          \* app.py lines 50-57: front_img, back_img, side_img
    app_res,           \* app.py lines 70-82: front_res, back_res, side_res so far
    app_log,           \* app.py: calls, returns, pauses and messages, in order
    h_pc,              \* heuristic validator: position
    h_input,           \* heuristic validator: the upload and its metrics
    h_gates,           \* heuristic validator: the gates evaluated, in order
    h_result           \* heuristic validator: the returned result

locals == <<image, available_models, model_name, attempt, retry_delay,
            response, last_error, exc>>
args == <<file_upload, yard_type, api_key>>
env == <<configure_calls, list_calls, generate_calls, sleeps>>
\* the state of the callers, which no step of validate_image touches
app == <<app_pc, app_key, app_imgs, app_res, app_log>>
heuristic == <<h_pc, h_input, h_gates, h_result>>
outer == <<mock, prev, app, heuristic>>
vars == <<pc, ncalls, args, locals, result, raised, env, file_pos, outer>>

max_retries == 3
initial_retry_delay == 2

YardTypes == {"Front Yard", "Back Yard", "Side Yard"}
\* an upload is a photo PIL can decode or a file it cannot
Uploads == {[decodable |-> TRUE], [decodable |-> FALSE]}
ApiKeys == {PyNone, EmptyStr, Lit("AIza-key")}
NoResult == [valid |-> FALSE]

\* no endpoint behaviour is programmed, no earlier call is remembered
NoMock == [listing |-> <<"any">>]
NoPrev == [ncalls |-> 0]

\* app.py line 59: the form is shown and not yet submitted
NoUpload == [missing |-> TRUE]
InitApp ==
    /\ app_pc = "form"
    /\ app_key = EmptyStr
    /\ app_imgs = <<NoUpload, NoUpload, NoUpload>>
    /\ app_res = <<>>
    /\ app_log = <<>>

\* the heuristic validator before a call
InitHeuristic ==
    /\ h_pc = "idle"
    /\ h_input = NoUpload
    /\ h_gates = <<>>
    /\ h_result = NoResult

\* validate_image before its first call
InitCall ==
    /\ pc = "idle"
    /\ ncalls = 0
    /\ file_upload = [decodable |-> TRUE]
    /\ yard_type = "Front Yard"
    /\ api_key = PyNone
    /\ image = Unset
    /\ available_models = <<>>
    /\ model_name = Unset
    /\ attempt = 0
    /\ retry_delay = 0
    /\ response = NoResponse
    /\ last_error = NoError
    /\ exc = NoError
    /\ result = NoResult
    /\ raised = NoError
    /\ configure_calls = 0
    /\ list_calls = <<>>
    /\ generate_calls = <<>>
    /\ sleeps = <<>>
    /\ file_pos = "start"

Init ==
    /\ InitCall
    /\ mock = NoMock
    /\ prev = NoPrev
    /\ InitApp
    /\ InitHeuristic

\* line 9: validate_image(f, y, k) is entered; its locals are unbound, and
\* the records of what this call does to its environment are empty
Enter(f, y, k) ==
    /\ pc \in {"idle", "returned", "raised"}
    /\ ncalls' = ncalls + 1
    /\ pc' = "entered"
    /\ file_upload' = f
    /\ yard_type' = y
    /\ api_key' = k
    /\ image' = Unset
    /\ available_models' = <<>>
    /\ model_name' = Unset
    /\ attempt' = 0
    /\ retry_delay' = 0
    /\ response' = NoResponse
    /\ last_error' = NoError
    /\ exc' = NoError
    /\ result' = NoResult
    /\ raised' = NoError
    /\ configure_calls' = 0
    /\ list_calls' = <<>>
    /\ generate_calls' = <<>>
    /\ sleeps' = <<>>

\* a caller invokes validator.validate_image(f, y, k)
Call(f, y, k) ==
    /\ ncalls < MaxCalls
    /\ Enter(f, y, k)
    /\ UNCHANGED <<file_pos, outer>>

\* lines 18-19: no credential
MissingKey ==
    /\ pc = "entered"
    /\ ~Truthy(api_key)
    /\ result' = MissingKeyResult
    /\ pc' = "returned"
    /\ UNCHANGED <<ncalls, args, locals, raised, env, file_pos, outer>>

\* lines 18, 22: genai.configure(api_key=api_key)
Configure ==
    /\ pc = "entered"
    /\ Truthy(api_key)
    /\ configure_calls' = configure_calls + 1
    /\ pc' = "open"
    /\ UNCHANGED <<ncalls, args, locals, result, raised,
                   list_calls, generate_calls, sleeps, file_pos, outer>>

\* Image.open reading on from where the stream stands
Decodes_FromPosition(f, pos) == f.decodable /\ pos = "start"

\* line 66: Image.open(f) identifies an image in the upload f, whose read
\* position is pos; it seeks to the start of the stream before it reads
Decodes(f, pos) == f.decodable

\* line 66: Image.open(file_upload) decodes the upload; the header was read
OpenImage ==
    /\ pc = "open"
    /\ Decodes(file_upload, file_pos)
    /\ image' = <<"image", yard_type>>
    /\ file_pos' = "moved"
    /\ pc' = "resolve"
    /\ UNCHANGED <<ncalls, args, available_models, model_name, attempt,
                   retry_delay, response, last_error, exc, result, raised, env, outer>>

\* line 66: Image.open raises; no handler encloses it
OpenImageFails ==
    /\ pc = "open"
    /\ ~Decodes(file_upload, file_pos)
    /\ raised' = UnidentifiedImageError
    /\ file_pos' = "moved"
    /\ pc' = "raised"
    /\ UNCHANGED <<ncalls, args, locals, result, env, outer>>

\* lines 100-107: the state the retry loop starts in, with model m selected
EnterLoop(m) ==
    /\ model_name' = m
    /\ available_models' = <<>>
    /\ attempt' = 0
    /\ retry_delay' = initial_retry_delay
    /\ response' = NoResponse
    /\ last_error' = NoError
    /\ pc' = "attempt"

\* lines 99, 38: genai.list_models() returns listing
ListModels(listing) ==
    /\ pc = "resolve"
    /\ list_calls' = Append(list_calls, "ok")
    /\ available_models' = AvailableModels(listing)
    /\ pc' = "select"
    /\ UNCHANGED <<ncalls, args, image, model_name, attempt, retry_delay,
                   response, last_error, exc, result, raised,
                   configure_calls, generate_calls, sleeps, file_pos, outer>>

\* the listing error left to the handler of line 125
ListModelsFails_Propagates(e) ==
    /\ pc = "resolve"
    /\ list_calls' = Append(list_calls, e.type)
    /\ exc' = e
    /\ pc' = "failed"
    /\ UNCHANGED <<ncalls, args, image, available_models, model_name, attempt,
                   retry_delay, response, last_error, result, raised,
                   configure_calls, generate_calls, sleeps, file_pos, outer>>

\* lines 99, 38, 60-61, 100-107: genai.list_models() raises e
ListModelsFails(e) ==
    /\ pc = "resolve"
    /\ list_calls' = Append(list_calls, e.type)
    /\ EnterLoop(FallbackModel)
    /\ UNCHANGED <<ncalls, args, image, exc, result, raised,
                   configure_calls, generate_calls, sleeps, file_pos, outer>>

\* lines 41-63, 100-107: pick from the list; the loop is entered
Select ==
    /\ pc = "select"
    /\ EnterLoop(SelectModel(available_models))
    /\ UNCHANGED <<ncalls, args, image, exc, result, raised, env, file_pos, outer>>

\* lines 111-112: generate_content returns r
GenerateOk(r) ==
    /\ pc = "attempt"
    /\ generate_calls' = Append(generate_calls, [model |-> model_name, outcome |-> "ok"])
    /\ response' = r
    /\ pc' = "parse"
    /\ UNCHANGED <<ncalls, args, image, available_models, model_name, attempt,
                   retry_delay, last_error, exc, result, raised,
                   configure_calls, list_calls, sleeps, file_pos, outer>>

\* the test `attempt <= max_retries`
RetryAllowed_OffByOne(n) == n <= max_retries

\* line 116: the rate-limited attempt of loop index n is retried
RetryAllowed(n) == n < max_retries

\* another error handled like the rate-limit signal
AfterOtherError_Retry(n) == IF n < max_retries THEN "sleep" ELSE "failed"

\* lines 121-123: where control goes when attempt n raises another error
AfterOtherError(n) == "failed"

\* a linear backoff, `retry_delay += 2`
NextDelay_Linear(d) == d + 2

\* line 118: the delay of the sleep after one of d seconds
NextDelay(d) == d * 2

\* lines 111, 113-120: generate_content raises the rate-limit signal
GenerateRateLimited ==
    /\ pc = "attempt"
    /\ generate_calls' = Append(generate_calls,
                                [model |-> model_name, outcome |-> "ResourceExhausted"])
    /\ last_error' = ResourceExhausted
    /\ IF RetryAllowed(attempt)
       THEN /\ pc' = "sleep"
            /\ exc' = exc
       ELSE /\ pc' = "failed"
            /\ exc' = ResourceExhausted
    /\ UNCHANGED <<ncalls, args, image, available_models, model_name, attempt,
                   retry_delay, response, result, raised,
                   configure_calls, list_calls, sleeps, file_pos, outer>>

\* lines 111, 121-123: generate_content raises another error
GenerateOtherError(e) ==
    /\ pc = "attempt"
    /\ ~IsResourceExhausted(e)
    /\ generate_calls' = Append(generate_calls, [model |-> model_name, outcome |-> e.type])
    /\ pc' = AfterOtherError(attempt)
    /\ exc' = IF pc' = "failed" THEN e ELSE exc
    /\ UNCHANGED <<ncalls, args, image, available_models, model_name, attempt,
                   retry_delay, response, last_error, result, raised,
                   configure_calls, list_calls, sleeps, file_pos, outer>>

\* a retry that lists the models again before its attempt
Sleep_ListsAgain ==
    /\ pc = "sleep"
    /\ sleeps' = Append(sleeps, retry_delay)
    /\ retry_delay' = NextDelay(retry_delay)
    /\ attempt' = attempt + 1
    /\ list_calls' = Append(list_calls, "ok")
    /\ pc' = IF attempt + 1 < max_retries + 1 THEN "attempt" ELSE "parse"
    /\ UNCHANGED <<ncalls, args, image, available_models, model_name,
                   response, last_error, exc, result, raised,
                   configure_calls, generate_calls, file_pos, outer>>

\* a retry that does not advance the loop index
Sleep_SameIndex ==
    /\ pc = "sleep"
    /\ sleeps' = Append(sleeps, retry_delay)
    /\ retry_delay' = NextDelay(retry_delay)
    /\ pc' = "attempt"
    /\ UNCHANGED <<ncalls, args, image, available_models, model_name, attempt,
                   response, last_error, exc, result, raised,
                   configure_calls, list_calls, generate_calls, file_pos, outer>>

\* lines 117-118, 109: time.sleep(retry_delay), the delay doubles, and the
\* loop goes to its next index or, past range(max_retries + 1), ends
Sleep ==
    /\ pc = "sleep"
    /\ sleeps' = Append(sleeps, retry_delay)
    /\ retry_delay' = NextDelay(retry_delay)
    /\ attempt' = attempt + 1
    /\ pc' = IF attempt + 1 < max_retries + 1 THEN "attempt" ELSE "parse"
    /\ UNCHANGED <<ncalls, args, image, available_models, model_name,
                   response, last_error, exc, result, raised,
                   configure_calls, list_calls, generate_calls, file_pos, outer>>

\* lines 125-126: the handler of the invocation
HandleInvocationError ==
    /\ pc = "failed"
    /\ result' = InvocationFailure(exc, model_name)
    /\ pc' = "returned"
    /\ UNCHANGED <<ncalls, args, locals, raised, env, file_pos, outer>>

\* lines 129-156: the reply is parsed and the result returned; the handler
\* of line 153 rewinds the upload (line 155)
Parse ==
    /\ pc = "parse"
    /\ result' = ParseResponse(response, model_name)
    /\ file_pos' = IF ParseRaises(response) THEN "start" ELSE file_pos
    /\ pc' = "returned"
    /\ UNCHANGED <<ncalls, args, locals, raised, env, outer>>

Next ==
    \/ \E f \in Uploads, y \in YardTypes, k \in ApiKeys : Call(f, y, k)
    \/ MissingKey
    \/ Configure
    \/ OpenImage
    \/ OpenImageFails
    \/ \E listing \in Listings : ListModels(listing)
    \/ \E e \in ListingErrors : ListModelsFails(e)
    \/ Select
    \/ \E r \in Responses : GenerateOk(r)
    \/ GenerateRateLimited
    \/ \E e \in OtherErrors : GenerateOtherError(e)
    \/ Sleep
    \/ HandleInvocationError
    \/ Parse

Spec == Init /\ [][Next]_vars

----------------------------------------------------------------------------
(* Two successive calls against a deterministic endpoint *)

\* what a deterministic endpoint can be programmed to do on every
\* validate_image call: the answer of list_models, the number of generate
\* calls that are rate limited, and the answer of the generate call after them
MockListings ==
    { l \in Listings :
        /\ Len(l) <= 1
        /\ \A i \in 1..Len(l) : "generateContent" \in l[i].supported_generation_methods }
MockResponses ==
    { Blocked,
      TextReply(<<Truncated>>),
      TextReply(<<JsonDoc(MakeDict(PyBool(TRUE), Absent, Absent, PyInt(85)))>>),
      TextReply(<<FenceJson, Ws, JsonDoc(MakeDict(PyBool(FALSE), KitchenReason, Absent, Absent)),
                  Ws, Fence>>) }
Mocks ==
    [ listing : {<<"ok", l>> : l \in MockListings} \cup {<<"raise", e>> : e \in ListingErrors},
      limited : 0..(max_retries + 1),
      final   : {<<"ok", r>> : r \in MockResponses} \cup {<<"raise", e>> : e \in OtherErrors} ]

InitTwice ==
    /\ InitCall
    /\ mock \in Mocks
    /\ prev = NoPrev
    /\ InitApp
    /\ InitHeuristic

\* the caller calls again with the same upload, label and credential, and
\* keeps what the call before did
CallAgain ==
    /\ ncalls >= 1
    /\ ncalls < MaxCalls
    /\ prev' = [ncalls |-> ncalls, pc |-> pc, result |-> result, raised |-> raised,
                model_name |-> model_name, configure_calls |-> configure_calls,
                list_calls |-> list_calls, generate_calls |-> generate_calls,
                sleeps |-> sleeps]
    /\ Enter(file_upload, yard_type, api_key)
    /\ UNCHANGED <<file_pos, mock, app, heuristic>>

\* line 38 against the programmed endpoint
MockListModels ==
    /\ mock.listing[1] = "ok"
    /\ ListModels(mock.listing[2])
MockListModelsFails ==
    /\ mock.listing[1] = "raise"
    /\ ListModelsFails(mock.listing[2])

\* line 111 against the programmed endpoint
MockGenerateRateLimited ==
    /\ Len(generate_calls) < mock.limited
    /\ GenerateRateLimited
MockGenerateOk ==
    /\ Len(generate_calls) >= mock.limited
    /\ mock.final[1] = "ok"
    /\ GenerateOk(mock.final[2])
MockGenerateOtherError ==
    /\ Len(generate_calls) >= mock.limited
    /\ mock.final[1] = "raise"
    /\ GenerateOtherError(mock.final[2])

NextTwice ==
    \/ \E f \in Uploads, y \in YardTypes, k \in ApiKeys : ncalls = 0 /\ Call(f, y, k)
    \/ CallAgain
    \/ MissingKey
    \/ Configure
    \/ OpenImage
    \/ OpenImageFails
    \/ MockListModels
    \/ MockListModelsFails
    \/ Select
    \/ MockGenerateOk
    \/ MockGenerateRateLimited
    \/ MockGenerateOtherError
    \/ Sleep
    \/ HandleInvocationError
    \/ Parse

SpecTwice == InitTwice /\ [][NextTwice]_vars

----------------------------------------------------------------------------
(* app.py: one submission of the form *)

\* app.py lines 70, 76, 82: the labels, in the order of the calls
AppYards == <<"Front Yard", "Back Yard", "Side Yard">>
\* app.py lines 72, 78: time.sleep(1.0)
PacingDelay == 1
\* app.py line 37: st.text_input gives a str; lines 50-57: an upload or None
AppKeys == {EmptyStr, Lit("AIza-key")}
AppUploads == Uploads \cup {NoUpload}

\* what the endpoint answers while the app runs
AppListings ==
    { <<[name |-> ModelsPrefix \o Gemini20Flash,
         supported_generation_methods |-> {"generateContent"}]>> }
AppListingErrors == { e \in ListingErrors : e.type = "ServiceUnavailable" }
AppResponses ==
    { TextReply(<<JsonDoc(MakeDict(PyBool(TRUE), Absent, Absent, PyInt(85)))>>),
      TextReply(<<FenceJson, Ws, JsonDoc(MakeDict(PyBool(FALSE), KitchenReason, Absent, Absent)),
                  Ws, Fence>>),
      TextReply(<<Truncated>>) }
AppErrors == {InvalidArgument}

\* app.py lines 59-61: the form is submitted with key k and the three uploads
Submit(k, front_img, back_img, side_img) ==
    /\ app_pc = "form"
    /\ app_key' = k
    /\ app_imgs' = <<front_img, back_img, side_img>>
    /\ app_pc' = "submitted"
    /\ UNCHANGED <<pc, ncalls, args, locals, result, raised, env, file_pos,
                   mock, prev, app_res, app_log, heuristic>>

\* app.py lines 62-63
RefuseNoKey ==
    /\ app_pc = "submitted"
    /\ ~Truthy(app_key)
    /\ app_log' = Append(app_log, <<"show", "key_missing">>)
    /\ app_pc' = "done"
    /\ UNCHANGED <<pc, ncalls, args, locals, result, raised, env, file_pos,
                   mock, prev, app_key, app_imgs, app_res, heuristic>>

\* app.py line 64: front_img and back_img and side_img
AllUploaded(imgs) == \A i \in 1..3 : imgs[i] # NoUpload

\* app.py lines 64-65
RefuseNoImages ==
    /\ app_pc = "submitted"
    /\ Truthy(app_key)
    /\ ~AllUploaded(app_imgs)
    /\ app_log' = Append(app_log, <<"show", "images_missing">>)
    /\ app_pc' = "done"
    /\ UNCHANGED <<pc, ncalls, args, locals, result, raised, env, file_pos,
                   mock, prev, app_key, app_imgs, app_res, heuristic>>

\* app.py line 66: the else branch is taken
Proceed ==
    /\ app_pc = "submitted"
    /\ Truthy(app_key)
    /\ AllUploaded(app_imgs)
    /\ app_pc' = "call"
    /\ UNCHANGED <<pc, ncalls, args, locals, result, raised, env, file_pos,
                   mock, prev, app_key, app_imgs, app_res, app_log, heuristic>>

\* app.py lines 70, 76, 82: validator.validate_image(img, label, api_key) is
\* called for the next image; each upload is a stream not read before
AppCall ==
    /\ app_pc = "call"
    /\ Enter(app_imgs[Len(app_res) + 1], AppYards[Len(app_res) + 1], app_key)
    /\ file_pos' = "start"
    /\ app_log' = Append(app_log, <<"call", AppYards[Len(app_res) + 1]>>)
    /\ app_pc' = "in_call"
    /\ UNCHANGED <<mock, prev, app_key, app_imgs, app_res, heuristic>>

\* the next call following the return at once
AfterReturn_NoPause(n) == IF n < 3 THEN "call" ELSE "display"

\* app.py lines 72, 78, 85: where the script goes with n results in hand
AfterReturn(n) == IF n < 3 THEN "pause" ELSE "display"

\* app.py lines 70, 76, 82: the call returned and its result is kept
AppReturn ==
    /\ app_pc = "in_call"
    /\ pc = "returned"
    /\ app_res' = Append(app_res, result)
    /\ app_log' = Append(app_log, <<"return", yard_type>>)
    /\ app_pc' = AfterReturn(Len(app_res) + 1)
    /\ UNCHANGED <<pc, ncalls, args, locals, result, raised, env, file_pos,
                   mock, prev, app_key, app_imgs, heuristic>>

\* app.py lines 70, 76, 82: the call raised; nothing in app.py catches it
\* and the script run ends
AppRaise ==
    /\ app_pc = "in_call"
    /\ pc = "raised"
    /\ app_log' = Append(app_log, <<"raise", yard_type>>)
    /\ app_pc' = "crashed"
    /\ UNCHANGED <<pc, ncalls, args, locals, result, raised, env, file_pos,
                   mock, prev, app_key, app_imgs, app_res, heuristic>>

\* app.py lines 72, 78
Pause ==
    /\ app_pc = "pause"
    /\ app_log' = Append(app_log, <<"sleep", PacingDelay>>)
    /\ app_pc' = "call"
    /\ UNCHANGED <<pc, ncalls, args, locals, result, raised, env, file_pos,
                   mock, prev, app_key, app_imgs, app_res, heuristic>>

\* app.py lines 91-109: one message per image; `if res['valid']`
ImageMessages(res) ==
    [i \in 1..Len(res) |->
        IF res[i].valid THEN <<"success", AppYards[i]>> ELSE <<"error", AppYards[i]>>]

\* app.py lines 85-109: all_valid
AllValid(res) == \A i \in 1..Len(res) : res[i].valid

\* app.py lines 85-116: the results and the final verdict are shown
Display ==
    /\ app_pc = "display"
    /\ app_log' = app_log \o ImageMessages(app_res)
                     \o <<IF AllValid(app_res) THEN <<"show", "all_valid">>
                                               ELSE <<"show", "fix_errors">>>>
    /\ app_pc' = "done"
    /\ UNCHANGED <<pc, ncalls, args, locals, result, raised, env, file_pos,
                   mock, prev, app_key, app_imgs, app_res, heuristic>>

\* the steps of validate_image while the app runs (the app never passes a
\* falsy key, so line 19 is not among them)
StepApp ==
    \/ Configure
    \/ OpenImage
    \/ OpenImageFails
    \/ \E listing \in AppListings : ListModels(listing)
    \/ \E e \in AppListingErrors : ListModelsFails(e)
    \/ Select
    \/ \E r \in AppResponses : GenerateOk(r)
    \/ GenerateRateLimited
    \/ \E e \in AppErrors : GenerateOtherError(e)
    \/ Sleep
    \/ HandleInvocationError
    \/ Parse

NextApp ==
    \/ \E k \in AppKeys, f \in AppUploads, b \in AppUploads, s \in AppUploads : Submit(k, f, b, s)
    \/ RefuseNoKey
    \/ RefuseNoImages
    \/ Proceed
    \/ AppCall
    \/ AppReturn
    \/ AppRaise
    \/ Pause
    \/ Display
    \/ StepApp

SpecApp == Init /\ [][NextApp]_vars

\* the interpreter runs the next statement of validate_image, and every
\* remote call returns or raises
FairApp == SpecApp /\ WF_vars(StepApp)

----------------------------------------------------------------------------
(* The heuristic validator, as spec section 4.1 describes it *)

\* the thresholds: Laplacian variance, mean of the value channel, green
\* pixels in percent of all pixels, line segments
BlurThreshold == 100
DarkThreshold == 40
GreeneryThreshold == 5
LineThreshold == 10

\* an upload with the four signals measured on it, and the gate, if any, at
\* which an unexpected exception is raised
Gates == {"blur", "brightness", "greenery", "structure"}
HInputs ==
    [ decodable : BOOLEAN,
      variance : {50, 100, 150},
      brightness : {39, 40, 200},
      greenery : {4, 5, 6},
      lines : {10, 11},
      fault : Gates \cup {"none"} ]

\* structure evaluated before greenery
GateOrder_StructureFirst == <<"blur", "brightness", "structure", "greenery">>

\* steps 2-5 and 6: the gates in the order of their evaluation
GateOrder == <<"blur", "brightness", "greenery", "structure">>

\* the metric gate g measures on u
Metric(g, u) ==
    CASE g = "blur" -> u.variance
      [] g = "brightness" -> u.brightness
      [] g = "greenery" -> u.greenery
      [] g = "structure" -> u.lines

\* steps 2-5: variance < 100.0, mean < 40, ratio <= 0.05, count <= 10 reject
Passes(g, u) ==
    CASE g = "blur" -> ~(u.variance < BlurThreshold)
      [] g = "brightness" -> ~(u.brightness < DarkThreshold)
      [] g = "greenery" -> ~(u.greenery <= GreeneryThreshold)
      [] g = "structure" -> ~(u.lines <= LineThreshold)

\* the error of each gate
GateError(g) ==
    CASE g = "blur" -> "too blurry"
      [] g = "brightness" -> "too dark"
      [] g = "greenery" -> "garden not visible"
      [] g = "structure" -> "home/building not clearly visible"

Rejection(g, u) == [valid |-> FALSE, error |-> GateError(g), score |-> Metric(g, u)]
DecodeFailure == [valid |-> FALSE, error |-> "Could not decode image."]
ProcessingError == [valid |-> FALSE, error |-> "Processing error: "]
Accepted == [valid |-> TRUE, message |-> "OK"]

\* validate(image_bytes, yard_label) is called
HValidate(u) ==
    /\ h_pc \in {"idle", "returned"}
    /\ h_input' = u
    /\ h_gates' = <<>>
    /\ h_result' = NoResult
    /\ h_pc' = "decode"
    /\ UNCHANGED <<pc, ncalls, args, locals, result, raised, env, file_pos,
                   mock, prev, app>>

\* step 1
HDecode ==
    /\ h_pc = "decode"
    /\ IF h_input.decodable
       THEN h_pc' = GateOrder[1] /\ h_result' = h_result
       ELSE h_pc' = "returned" /\ h_result' = DecodeFailure
    /\ UNCHANGED <<pc, ncalls, args, locals, result, raised, env, file_pos,
                   mock, prev, app, h_input, h_gates>>

\* steps 2-7: the gate at position k of the order is evaluated; an
\* exception ends the call with the processing error, a failing gate with
\* its own error, and a passing gate leads to the next one or, after the
\* last, to the success result
GateStep(k) ==
    /\ h_pc = GateOrder[k]
    /\ h_gates' = Append(h_gates, GateOrder[k])
    /\ IF h_input.fault = GateOrder[k]
       THEN h_pc' = "returned" /\ h_result' = ProcessingError
       ELSE IF ~Passes(GateOrder[k], h_input)
       THEN h_pc' = "returned" /\ h_result' = Rejection(GateOrder[k], h_input)
       ELSE IF k < Len(GateOrder)
       THEN h_pc' = GateOrder[k + 1] /\ h_result' = h_result
       ELSE h_pc' = "returned" /\ h_result' = Accepted
    /\ UNCHANGED <<pc, ncalls, args, locals, result, raised, env, file_pos,
                   mock, prev, app, h_input>>

FirstGate == GateStep(1)
SecondGate == GateStep(2)
ThirdGate == GateStep(3)
FourthGate == GateStep(4)

NextHeuristic ==
    \/ \E u \in HInputs : HValidate(u)
    \/ HDecode
    \/ FirstGate
    \/ SecondGate
    \/ ThirdGate
    \/ FourthGate

SpecHeuristic == Init /\ [][NextHeuristic]_vars

----------------------------------------------------------------------------
(* Properties *)

\* the returned result res carries an error text in which msg occurs
Mentions(res, msg) ==
    /\ "error" \in DOMAIN res
    /\ IsStr(res.error)
    /\ \E i \in 1..Len(res.error[2]) : res.error[2][i] = msg

\* the attempts of this call that ended in the rate-limit signal
RateLimitedAttempts ==
    {i \in 1..Len(generate_calls) : generate_calls[i].outcome = "ResourceExhausted"}

\* C1: a rate-limited generate call is retried up to 3 more times (at most 4
\* generate calls per validate_image call), the sleeps before retries 1, 2
\* and 3 are 2s, 4s and 8s in that order, no sleep follows the 4th failed
\* attempt, a rate-limited attempt is given up only when it is the 4th, and
\* the rate-limit error is in the returned result exactly when all 4
\* attempts were rate-limited.
C1_RateLimitRetry ==
    LET n == Len(generate_calls)
    IN /\ n <= 4
       /\ Len(sleeps) <= 3
       /\ sleeps = SubSeq(<<2, 4, 8>>, 1, Len(sleeps))
       /\ pc = "attempt" => Len(sleeps) = n
       /\ (n >= 1 /\ pc # "attempt") => Len(sleeps) = n - 1
       /\ pc = "sleep" => n \in RateLimitedAttempts
       /\ (pc \in {"failed", "returned"} /\ n \in RateLimitedAttempts) => n = 4
       /\ pc = "returned" =>
            (Mentions(result, ResourceExhausted.msg)
               <=> (n = 4 /\ RateLimitedAttempts = 1..4))

C1_Witness ==
    /\ pc = "returned"
    /\ result.valid = FALSE
    /\ Mentions(result, ResourceExhausted.msg)
    /\ Len(generate_calls) = 4
    /\ sleeps = <<2, 4, 8>>

\* C2: a validate_image call with an empty or absent credential configures
\* nothing, lists no models, generates nothing and sleeps never, and returns
\* valid=false with the error that the API Key is missing.
C2_MissingKeyNoRemoteCall ==
    (pc # "idle" /\ api_key \in {PyNone, EmptyStr}) =>
        /\ configure_calls = 0
        /\ list_calls = <<>>
        /\ generate_calls = <<>>
        /\ sleeps = <<>>
        /\ pc \in {"entered", "returned"}
        /\ pc = "returned" =>
             /\ DOMAIN result = {"valid", "error"}
             /\ result.valid = FALSE
             /\ result.error = Lit(MissingKeyText)

C2_Witness ==
    /\ pc = "returned"
    /\ api_key = EmptyStr
    /\ result.valid = FALSE
    /\ result.error = Lit(MissingKeyText)
    /\ configure_calls = 0

\* the result res is valid=false with an error that is a non-empty text
HasNonEmptyError(res) ==
    /\ res.valid = FALSE
    /\ "error" \in DOMAIN res
    /\ IsStr(res.error)
    /\ res.error[2] # <<>>

\* the result res is the one the handler of the invocation builds
IsInvocationFailure(res) ==
    /\ HasNonEmptyError(res)
    /\ res.error[2][1] = "AI Validation failed (Model: "

\* the result res is the one the handler of the parsing builds
IsParseFailure(res) ==
    /\ HasNonEmptyError(res)
    /\ res.error[2][1] = "Validation failed: "

\* the generate call i of this call raised an error other than the rate limit
OtherErrorAt(i) == generate_calls[i].outcome \notin {"ok", "ResourceExhausted"}

\* the last generate call of this call returned a reply
LastGenerateOk ==
    /\ generate_calls # <<>>
    /\ generate_calls[Len(generate_calls)].outcome = "ok"

\* the reply r is one JSON object, alone or inside code fences and white space
CarriesObject(r) ==
    /\ ~r.blocked
    /\ \E i \in 1..Len(r.text) :
         /\ r.text[i][1] = "json"
         /\ IsDict(r.text[i][2])
         /\ \A j \in (1..Len(r.text)) \ {i} : r.text[j] \in {FenceJson, Fence, Ws}

\* the JSON object (as a function of its keys) the reply r carries
ObjectOf(r) == r.text[CHOOSE i \in 1..Len(r.text) : r.text[i][1] = "json"][2][2]

RECURSIVE SumSeq(_)
SumSeq(q) == IF q = <<>> THEN 0 ELSE Head(q) + SumSeq(Tail(q))

RECURSIVE Pow2(_)
Pow2(k) == IF k = 0 THEN 1 ELSE 2 * Pow2(k - 1)

\* C3: no failure inside validate_image reaches the caller as a raw
\* exception: every call ends by returning a result, and after a failed
\* generate call or a reply that is not a JSON object that result has
\* valid=false.
C3_NoRawException ==
    /\ pc # "raised"
    /\ raised = NoError
    /\ (pc = "returned" /\ generate_calls # <<>>
          /\ (~LastGenerateOk \/ ~CarriesObject(response)))
         => result.valid = FALSE

\* C4: a generate call that raises an error other than the rate-limit signal
\* is the last generate call of its validate_image call and no sleep follows
\* it, at whichever attempt it occurs; the call goes to its handler and
\* returns valid=false with that error.
C4_OtherErrorTerminates ==
    \A i \in 1..Len(generate_calls) :
        OtherErrorAt(i) =>
            /\ i = Len(generate_calls)
            /\ Len(sleeps) = i - 1
            /\ pc \in {"failed", "returned"}
            /\ pc = "returned" =>
                 /\ result.valid = FALSE
                 /\ \E e \in OtherErrors :
                      /\ e.type = generate_calls[i].outcome
                      /\ Mentions(result, e.msg)

C4_Witness ==
    /\ pc = "returned"
    /\ Len(generate_calls) = 3
    /\ RateLimitedAttempts = {1, 2}
    /\ generate_calls[3].outcome = "InternalServerError"
    /\ sleeps = <<2, 4>>
    /\ result.valid = FALSE

\* C5: when the endpoint raises the rate-limit signal k times (k in 0..3) and
\* then returns a reply, the total backoff slept is 2*(2^k - 1) seconds (6
\* for k = 2) and validate_image returns what the reply says, not the
\* failure of the invocation: for a reply carrying a JSON object, valid=true
\* with message OK when its valid is true, else valid=false with its reason.
C5_RecoversAfterRateLimits ==
    (pc = "returned" /\ LastGenerateOk) =>
        LET k == Len(generate_calls) - 1
        IN /\ k \in 0..3
           /\ RateLimitedAttempts = 1..k
           /\ SumSeq(sleeps) = 2 * (Pow2(k) - 1)
           /\ k = 2 => SumSeq(sleeps) = 2 + 4
           /\ ~IsInvocationFailure(result)
           /\ ~Mentions(result, ResourceExhausted.msg)
           /\ CarriesObject(response) =>
                LET d == ObjectOf(response)
                IN IF "valid" \in DOMAIN d /\ d.valid = PyBool(TRUE)
                   THEN /\ result.valid = TRUE
                        /\ result.message = Lit("OK")
                        /\ result.model_used = PyStr(model_name)
                   ELSE /\ result.valid = FALSE
                        /\ ~IsParseFailure(result)
                        /\ "reason" \in DOMAIN d => result.error = d.reason
                        /\ result.model_used = PyStr(model_name)

C5_Witness ==
    /\ pc = "returned"
    /\ Len(generate_calls) = 3
    /\ RateLimitedAttempts = {1, 2}
    /\ LastGenerateOk
    /\ sleeps = <<2, 4>>
    /\ CarriesObject(response)
    /\ result.valid = TRUE

\* C6: every result validate_image returns satisfies exactly one of
\* valid=true, and valid=false with a non-empty error.
C6_ValidOrNonEmptyError ==
    pc = "returned" => ((result.valid = TRUE) # HasNonEmptyError(result))

\* the JSON object d has valid set to the boolean true
SaysValid(d) == "valid" \in DOMAIN d /\ d.valid = PyBool(TRUE)

\* C7: after a reply parsed into a JSON object, validate_image returns
\* valid=true with message OK if and only if the object's valid is the
\* boolean true; for false, null, 1, "true" or no valid at all it returns
\* valid=false with the object's reason as error ("Invalid image" when the
\* object has no reason).
C7_ValidOnlyForBooleanTrue ==
    (pc = "returned" /\ LastGenerateOk /\ CarriesObject(response)) =>
        LET d == ObjectOf(response)
        IN /\ result.valid = SaysValid(d)
           /\ result.valid => (/\ "message" \in DOMAIN result
                               /\ result.message = Lit("OK"))
           /\ ~SaysValid(d) =>
                /\ "error" \in DOMAIN result
                /\ result.error =
                     IF "reason" \in DOMAIN d THEN d.reason ELSE Lit("Invalid image")

C7_Witness ==
    /\ pc = "returned"
    /\ LastGenerateOk
    /\ CarriesObject(response)
    /\ "valid" \in DOMAIN ObjectOf(response)
    /\ ObjectOf(response).valid = PyInt(1)
    /\ result.valid = FALSE
    /\ result.error = KitchenReason

\* C8: when the parsed object is not valid, each of error, suggestion and
\* score of the result is the object's reason, suggestion and score when the
\* object has it, and otherwise its default ("Invalid image", the generic
\* remediation text, 0), each field independently of the others.
C8_DefaultsFillAbsentFields ==
    (pc = "returned" /\ LastGenerateOk /\ CarriesObject(response)
        /\ ~SaysValid(ObjectOf(response))) =>
        LET d == ObjectOf(response)
        IN /\ DOMAIN result = {"valid", "error", "suggestion", "score", "model_used"}
           /\ result.error =
                IF "reason" \in DOMAIN d THEN d.reason ELSE Lit("Invalid image")
           /\ result.suggestion =
                IF "suggestion" \in DOMAIN d THEN d.suggestion
                ELSE Lit("Please check the image requirements and try again.")
           /\ result.score =
                IF "score" \in DOMAIN d THEN d.score ELSE PyInt(0)

C8_Witness ==
    /\ pc = "returned"
    /\ LastGenerateOk
    /\ CarriesObject(response)
    /\ ObjectOf(response) = [valid |-> PyBool(FALSE), reason |-> KitchenReason]
    /\ result.error = KitchenReason
    /\ result.suggestion = Lit("Please check the image requirements and try again.")
    /\ result.score = PyInt(0)

\* name contains sub, letter case respected
HasExactly(sub, name) == Contains(sub, name)
\* name contains sub, letter case ignored in name
HasIgnoringCase(sub, name) == Contains(sub, Lower(name))

Least(S) == CHOOSE x \in S : \A y \in S : x <= y

\* The resolution as the claim words it, over the available models a, with
\* Has(sub, name) the meaning of "name contains sub" in the flash and pro steps.
ResolutionAsClaimed(a, Has(_, _)) ==
    LET pos == 1..Len(a)
        ranks == {i \in 1..Len(preferred_models) :
                    \E j \in pos : Contains(preferred_models[i], a[j])}
        withBest == {j \in pos : Contains(preferred_models[Least(ranks)], a[j])}
        withFlash == {j \in pos : Has(Flash, a[j])}
        withPro == {j \in pos : Has(Pro, a[j])}
    IN IF ranks # {} THEN a[Least(withBest)]
       ELSE IF withFlash # {} THEN a[Least(withFlash)]
       ELSE IF withPro # {} THEN a[Least(withPro)]
       ELSE IF pos # {} THEN a[1]
       ELSE Gemini15Flash

\* C9, as claimed: get_working_model returns the first available model that
\* contains the highest-ranked preferred identifier any available model
\* contains; else the first whose name contains "flash"; else the first
\* whose name contains "pro"; else the first available model; else
\* "gemini-1.5-flash".
C9_ResolutionAsClaimed ==
    [][pc = "select" =>
         model_name' = ResolutionAsClaimed(available_models, HasExactly)]_vars

\* C9, amended: the same, where in the flash and pro steps a name contains
\* "flash" or "pro" when its lower-cased form does (the preference step
\* compares the name as listed).
C9_ResolutionIgnoringCase ==
    [][pc = "select" =>
         model_name' = ResolutionAsClaimed(available_models, HasIgnoringCase)]_vars

C9_Witness ==
    /\ pc = "attempt"
    /\ list_calls = <<"ok">>
    /\ model_name = <<"G","e","m","i","n","i","-","F","l","a","s","h","-","E","x","p">>

\* the listing call of this validate_image call raised
ListingFailed == list_calls # <<>> /\ list_calls[1] # "ok"

\* C10: when the model-listing call raises any error, the rate-limit signal
\* included, "gemini-1.5-flash" is selected, generate calls are made with it,
\* the call does not end before a generate call was made, and the listing
\* error is neither handled as the failure of the invocation nor in the
\* returned result.
C10_ListingFailureFallsBack ==
    ListingFailed =>
        /\ pc \in {"attempt", "sleep", "parse", "failed", "returned"}
        /\ model_name = Gemini15Flash
        /\ \A i \in 1..Len(generate_calls) : generate_calls[i].model = Gemini15Flash
        /\ pc \in {"parse", "failed", "returned"} => generate_calls # <<>>
        /\ exc \notin ListingErrors
        /\ pc = "returned" =>
             /\ \A e \in ListingErrors : ~Mentions(result, e.msg)
             /\ "model_used" \in DOMAIN result =>
                  result.model_used = PyStr(Gemini15Flash)

C10_Witness ==
    /\ pc = "returned"
    /\ list_calls = <<"ResourceExhausted">>
    /\ generate_calls[1].model = Gemini15Flash
    /\ result.valid = TRUE

\* C11: every valid=false result that validate_image returns because of an
\* exception during the invocation (a failed generate call, exhausted
\* retries) or during the parsing of the reply (malformed JSON, a reply that
\* is not a JSON object) has a model_used field naming the selected model.
C11_FailureNamesModel ==
    (pc = "returned" /\ (IsInvocationFailure(result) \/ IsParseFailure(result))) =>
        /\ "model_used" \in DOMAIN result
        /\ result.model_used = PyStr(model_name)

\* C12: after every validate_image call that read the upload, whatever its
\* outcome (valid verdict, invalid verdict, invocation failure, parse
\* failure), the read position of the upload is back at the start.
C12_StreamRewound ==
    (pc = "returned" /\ image # Unset) => file_pos = "start"

\* C14: a score in a returned result is an integer in 0..100, whatever the
\* reply had in its score field.
C14_ScoreInRange ==
    (pc = "returned" /\ "score" \in DOMAIN result) =>
        /\ IsInt(result.score)
        /\ result.score[2] \in 0..100

\* C17: within one validate_image call the model is resolved once, before
\* the first generate attempt: list_models is called at most once and not
\* between retries, every attempt uses the same model, and model_used in the
\* returned result is that model.
C17_ResolvedOnce ==
    /\ Len(list_calls) <= 1
    /\ generate_calls # <<>> => Len(list_calls) = 1
    /\ \A i \in 1..Len(generate_calls) :
         /\ generate_calls[i].model = generate_calls[1].model
         /\ generate_calls[i].model = model_name
    /\ (pc = "returned" /\ generate_calls # <<>> /\ "model_used" \in DOMAIN result) =>
         result.model_used = PyStr(generate_calls[1].model)

C17_Witness ==
    /\ pc = "returned"
    /\ list_calls = <<"ok">>
    /\ Len(generate_calls) = 3
    /\ generate_calls[3].outcome = "ok"
    /\ generate_calls[3].model = ModelsPrefix \o Gemini20Flash
    /\ result.valid = TRUE
    /\ result.model_used = PyStr(ModelsPrefix \o Gemini20Flash)

\* C13: validate_image called twice in succession with the same upload, label
\* and credential against a deterministic endpoint returns (or raises) the
\* same both times, and nothing the first call left (retry delay, attempt
\* counter, selected model) changes what the second call does: it makes the
\* same remote calls with the same model and sleeps the same delays.
C13_SecondCallSame ==
    (prev.ncalls >= 1 /\ pc \in {"returned", "raised"}) =>
        /\ pc = prev.pc
        /\ result = prev.result
        /\ raised = prev.raised
        /\ model_name = prev.model_name
        /\ configure_calls = prev.configure_calls
        /\ list_calls = prev.list_calls
        /\ generate_calls = prev.generate_calls
        /\ sleeps = prev.sleeps

C13_Witness ==
    /\ prev.ncalls = 1
    /\ ncalls = 2
    /\ pc = "returned"
    /\ file_pos = "moved"
    /\ sleeps = <<2, 4>>
    /\ result.valid = TRUE
    /\ prev.result.valid = TRUE

\* the states of the invocation: Attempting(n) is pc = "attempt" with
\* attempt = n, RateLimited is pc = "sleep", Succeeded is a reply in hand
\* (pc = "parse", or returned after it), Failed is pc = "failed" or the
\* result of the handler of line 126
Attempting == pc = "attempt"
RateLimited == pc = "sleep"
Succeeded == pc \in {"parse", "returned"} /\ LastGenerateOk
Failed ==
    \/ pc = "failed"
    \/ pc = "returned" /\ generate_calls # <<>> /\ ~LastGenerateOk

\* C16: the invocation goes NotStarted -> Attempting(n) -> Succeeded, or
\* RateLimited -> Attempting(n+1), or Failed; n never exceeds 3; RateLimited
\* is entered, and left for Attempting(n+1), only when n < 3; no generate call
\* and no sleep follows Succeeded or Failed within the call; and, every remote
\* call returning or raising, an invocation that started reaches Succeeded or
\* Failed and validate_image returns.
C16_InvocationTerminates ==
    /\ [](/\ attempt <= max_retries
          /\ Len(generate_calls) <= max_retries + 1
          /\ RateLimited => attempt < max_retries
          /\ pc \in {"parse", "failed"} => (Succeeded \/ Failed)
          /\ (pc = "returned" /\ generate_calls # <<>>) => (Succeeded \/ Failed))
    /\ [][/\ (Attempting /\ pc' # pc) => (Succeeded' \/ RateLimited' \/ Failed')
          /\ (RateLimited /\ pc' # pc) =>
                (Attempting' /\ attempt' = attempt + 1 /\ attempt < max_retries)
          /\ ((Succeeded \/ Failed) /\ ncalls' = ncalls) =>
                (generate_calls' = generate_calls /\ sleeps' = sleeps
                   /\ pc' \in {pc, "returned"})]_vars
    /\ Attempting ~> (pc = "returned" /\ (Succeeded \/ Failed))

C16_Witness ==
    /\ pc = "returned"
    /\ Failed
    /\ Len(generate_calls) = max_retries + 1
    /\ attempt = max_retries
    /\ Len(sleeps) = max_retries

\* the calls, returns and pauses of the script run, in order
CallsAndPauses == SelectSeq(app_log, LAMBDA e : e[1] \in {"call", "return", "raise", "sleep"})

\* the order app.py is claimed to keep
ClaimedOrder ==
    << <<"call", "Front Yard">>, <<"return", "Front Yard">>, <<"sleep", 1>>,
       <<"call", "Back Yard">>, <<"return", "Back Yard">>, <<"sleep", 1>>,
       <<"call", "Side Yard">>, <<"return", "Side Yard">> >>

\* C18: app.py validates the three images one after the other, Front, Back,
\* Side: a validate_image call starts only after the call before returned
\* (retries and their sleeps included), and a pause of 1 second lies between
\* the return of a call and the start of the next.
C18_SequentialAndPaced ==
    /\ Len(CallsAndPauses) <= Len(ClaimedOrder)
    /\ \A i \in 1..Len(CallsAndPauses) :
         \/ CallsAndPauses[i] = ClaimedOrder[i]
         \/ /\ i = Len(CallsAndPauses)
            /\ CallsAndPauses[i][1] = "raise"
            /\ ClaimedOrder[i][1] = "return"
    /\ pc \notin {"idle", "returned", "raised"} =>
         /\ app_pc = "in_call"
         /\ CallsAndPauses[Len(CallsAndPauses)] = <<"call", yard_type>>
    /\ ncalls = Len(SelectSeq(app_log, LAMBDA e : e[1] = "call"))

C18_Witness ==
    /\ app_pc = "done"
    /\ CallsAndPauses = ClaimedOrder
    /\ Len(sleeps) = 2
    /\ app_res[1].valid = FALSE

\* the message msg was shown
Shown(msg) == \E i \in 1..Len(app_log) : app_log[i] = <<"show", msg>>

\* C19: validate_image is called only when the credential is non-empty and
\* all three images are uploaded (otherwise not at all); when it is called,
\* all three images are validated even if an earlier one is rejected; and the
\* "all images are valid" verdict is shown exactly when all three results
\* have valid = true.
C19_AllThreeOrNone ==
    /\ ncalls > 0 => (Truthy(app_key) /\ AllUploaded(app_imgs))
    /\ app_pc \in {"done", "crashed"} => ncalls \in {0, 3}
    /\ app_pc \in {"done", "crashed"} =>
         (Shown("all_valid") <=>
            (Len(app_res) = 3 /\ \A i \in 1..3 : app_res[i].valid = TRUE))

\* the order of the gates as claimed
ClaimedGates == <<"blur", "brightness", "greenery", "structure">>

\* the result res is the rejection by the gate at position k of the claimed order
RejectedBy(res, k) == res.valid = FALSE /\ res.error = GateError(ClaimedGates[k])

\* C15: the heuristic validator evaluates its four gates in the order blur,
\* brightness, greenery, structure and returns at the first failing gate
\* with that gate's error: a rejection by gate k is returned only if gates
\* 1..k-1 passed and gate k failed, no gate is evaluated after a failure, and
\* valid=true is returned only if all four gates passed.
C15_GatesInOrder ==
    /\ Len(h_gates) <= Len(ClaimedGates)
    /\ \A i \in 1..Len(h_gates) : h_gates[i] = ClaimedGates[i]
    /\ \A i \in 1..(Len(h_gates) - 1) :
         Passes(h_gates[i], h_input) /\ h_input.fault # h_gates[i]
    /\ \A k \in 1..Len(ClaimedGates) :
         (h_pc = "returned" /\ RejectedBy(h_result, k)) =>
            /\ h_gates = SubSeq(ClaimedGates, 1, k)
            /\ \A j \in 1..(k - 1) : Passes(ClaimedGates[j], h_input)
            /\ ~Passes(ClaimedGates[k], h_input)
    /\ (h_pc = "returned" /\ h_result.valid) =>
            /\ h_gates = ClaimedGates
            /\ \A j \in 1..Len(ClaimedGates) : Passes(ClaimedGates[j], h_input)

C15_Witness ==
    /\ h_pc = "returned"
    /\ RejectedBy(h_result, 3)
    /\ h_gates = <<"blur", "brightness", "greenery">>
    /\ ~Passes("structure", h_input)

====
